---- MODULE Spec2Model ----
(***************************************************************************)
(* Model of the bookmark kanban extension: the site-availability checker   *)
(* (src/js/modules/siteChecker.js) and the order store with its            *)
(* reconciliation on render (storageManager.js, ui/KanbanRenderer.js,      *)
(* ui/ColumnManager.js, dragManager.js, the new-tab page coordinator).     *)
(*                                                                         *)
(* Encodings.  JavaScript values of mixed type are written as strings:     *)
(* the statuses true / false / 'certificate-error' / 'no-https' are        *)
(* "true", "false", "certificate-error", "no-https"; null is "null" and    *)
(* undefined is "undefined".  A hostname is the sequence of its            *)
(* dot-separated labels: <<"192","168","1","1">> is '192.168.1.1'.  A Map  *)
(* is the sequence of its <<key, value>> entries in insertion order.       *)
(* Times are milliseconds, as Date.now() returns them.                     *)
(***************************************************************************)
EXTENDS Integers, Sequences, FiniteSets, TLC

VARIABLES
  now,          \* the value Date.now() returns
  siteStatus,   \* SiteChecker.siteStatus : Map hostname -> status
  checkTimes,   \* SiteChecker.checkTimes : Map hostname -> time of last check
  calls,        \* per hostname, the checkSite call that is probing (if any)
  last,         \* the operation that completed last, with its result
  arg,          \* a call of a render operation: its inputs
  out,          \* what that call rendered
  tree,         \* the bookmark tree of the browser: its root node
  storage,      \* chrome.storage.sync: columnOrder and bookmarkOrder
  dom,          \* the kanban container: the board and its columns
  render,       \* the render in progress: its await, caller and reads
  timers,       \* pending timers: the change debounce, item removals
  deleting,     \* deletions whose confirm handler awaits deleteBookmark
  isDragging,   \* DragManager.isDragging
  listening,    \* the event listeners of the page are set up
  moves,        \* the calls of chrome.bookmarks.move, settled or pending
  popup,        \* the settings popup: where its handleResetLayout is
  runs,         \* the runs of checkAllBookmarks, with what each broadcast
  currentSessionResults,  \* the variable of the background script
  store,        \* chrome.storage.session and .local: the key siteStatus
  checking,     \* per tab, the check button has the class "checking"
  inbox         \* per tab, the broadcast messages not yet handled

cacheVars == <<now, siteStatus, checkTimes, calls, last>>

orderVars == <<arg, out>>

checkVars == <<runs, currentSessionResults, store, checking, inbox>>

boardVars ==
  <<tree, storage, dom, render, timers, deleting, isDragging, listening, moves,
    popup>>

----------------------------------------------------------------------------
(* Constants of SiteChecker's constructor.                                  *)

CACHE_DURATION ==
  [ SUCCESS    |-> 24 * 60 * 60 * 1000,
    FAILURE    |-> 1 * 60 * 60 * 1000,
    CERT_ERROR |-> 12 * 60 * 60 * 1000,
    NO_HTTPS   |-> 12 * 60 * 60 * 1000 ]

TIMEOUT == 5000

TOTAL_CHECK_TIMEOUT == 5000

\* The delay of the timer in checkDomainExists.
DOMAIN_TIMEOUT == 2000

\* The source sets MAX_CACHE_SIZE to 500; the model keeps the code that
\* reads it and scales the number so that a full cache is reachable.
MAX_CACHE_SIZE == 3

HOUR == 60 * 60 * 1000

\* Probing checkSite calls the model follows at the same time.
MaxInFlight == 1

----------------------------------------------------------------------------
(* Map operations (JavaScript Map: insertion-ordered, set on an existing    *)
(* key keeps the key's position).                                           *)

MapHas(m, k) == \E i \in 1..Len(m) : m[i][1] = k

MapGet(m, k) ==
  IF MapHas(m, k)
  THEN m[CHOOSE i \in 1..Len(m) : m[i][1] = k][2]
  ELSE "undefined"

MapSet(m, k, v) ==
  IF MapHas(m, k)
  THEN [i \in 1..Len(m) |-> IF m[i][1] = k THEN <<k, v>> ELSE m[i]]
  ELSE Append(m, <<k, v>>)

MapDelete(m, k) == SelectSeq(m, LAMBDA e : e[1] # k)

MapKeys(m) == {m[i][1] : i \in 1..Len(m)}

----------------------------------------------------------------------------
(* Hostnames.                                                               *)

\* parseInt(label, 10) on the labels the model uses; -1 stands for NaN
\* (every comparison with NaN is false, as is every comparison of the
\* code with -1).
parseInt(label) ==
  CASE label = "0"  -> 0
    [] label = "1"  -> 1
    [] label = "5"  -> 5
    [] label = "9"  -> 9
    [] label = "10" -> 10
    [] label = "15" -> 15
    [] label = "16" -> 16
    [] label = "20" -> 20
    [] label = "31" -> 31
    [] label = "32" -> 32
    [] label = "127" -> 127
    [] label = "168" -> 168
    [] label = "172" -> 172
    [] label = "192" -> 192
    [] OTHER -> -1

\* isLocalNetwork with the 172 range cut short (secondPart < 31)
isLocalNetworkNarrow(hostname) ==
  LET parts == hostname
      n == Len(parts)
  IN  \/ hostname = <<"localhost">>
      \/ hostname = <<"127", "0", "0", "1">>
      \/ (n >= 3 /\ parts[1] = "192" /\ parts[2] = "168")
      \/ (n >= 2 /\ parts[1] = "10")
      \/ (n >= 2 /\ parts[n] = "local")
      \/ /\ n >= 2 /\ parts[1] = "172"
         /\ LET secondPart == parseInt(parts[2])
            IN  secondPart >= 16 /\ secondPart < 31

isLocalNetwork(hostname) ==
  LET parts == hostname
      n == Len(parts)
  IN  \/ hostname = <<"localhost">>
      \/ hostname = <<"127", "0", "0", "1">>
      \/ (n >= 3 /\ parts[1] = "192" /\ parts[2] = "168")  \* startsWith('192.168.')
      \/ (n >= 2 /\ parts[1] = "10")                       \* startsWith('10.')
      \/ (n >= 2 /\ parts[n] = "local")                    \* endsWith('.local')
      \/ /\ n >= 2 /\ parts[1] = "172"                     \* startsWith('172.')
         /\ LET secondPart == parseInt(parts[2])
            IN  secondPart >= 16 /\ secondPart <= 31

----------------------------------------------------------------------------
(* Cache reads.  t is the value Date.now() returns inside the function.     *)

getCacheDuration(status) ==
  IF status = "true" THEN CACHE_DURATION.SUCCESS
  ELSE IF status = "certificate-error" THEN CACHE_DURATION.CERT_ERROR
  ELSE IF status = "no-https" THEN CACHE_DURATION.NO_HTTPS
  ELSE CACHE_DURATION.FAILURE

shouldRecheck(hostname, t) ==
  IF ~MapHas(checkTimes, hostname) THEN TRUE
  ELSE LET lastCheck == MapGet(checkTimes, hostname)
           status == MapGet(siteStatus, hostname)
           cacheDuration == getCacheDuration(status)
       IN  t - lastCheck > cacheDuration

isCacheValid(hostname, t) ==
  IF ~MapHas(checkTimes, hostname) THEN FALSE
  ELSE LET lastCheck == MapGet(checkTimes, hostname)
           status == MapGet(siteStatus, hostname)
           cacheDuration == getCacheDuration(status)
       IN  t - lastCheck <= cacheDuration

getCachedStatus(hostname, t) ==
  IF isCacheValid(hostname, t) THEN MapGet(siteStatus, hostname) ELSE "null"

----------------------------------------------------------------------------
(* Cache writes.  Each returns the two maps and the number of entries it    *)
(* removed, as [status |-> .., times |-> .., removed |-> ..].               *)

\* entries.sort((a, b) => a[1] - b[1]) : Array.prototype.sort is stable.
InsertByTime(e, sorted) ==
  LET k == Cardinality({i \in 1..Len(sorted) : sorted[i][2] <= e[2]})
  IN  SubSeq(sorted, 1, k) \o <<e>> \o SubSeq(sorted, k + 1, Len(sorted))

RECURSIVE SortByTime(_)
SortByTime(entries) ==
  IF entries = <<>> THEN <<>>
  ELSE InsertByTime(entries[Len(entries)],
                    SortByTime(SubSeq(entries, 1, Len(entries) - 1)))

\* Math.ceil(this.MAX_CACHE_SIZE * 0.2)
removeCount == (MAX_CACHE_SIZE * 2 + 9) \div 10

Min(a, b) == IF a <= b THEN a ELSE b

\* limitCacheSize that removes the newest entries (sort descending)
limitCacheSizeNewest(ss, ct) ==
  LET entries == SortByTime(ct)
      n == Len(entries)
      toRemove == {entries[n + 1 - i][1] : i \in 1..Min(removeCount, n)}
  IN  [ status  |-> SelectSeq(ss, LAMBDA e : e[1] \notin toRemove),
        times   |-> SelectSeq(ct, LAMBDA e : e[1] \notin toRemove),
        removed |-> Cardinality(toRemove) ]

limitCacheSize(ss, ct) ==
  LET entries == SortByTime(ct)
      toRemove == {entries[i][1] : i \in 1..Min(removeCount, Len(entries))}
  IN  [ status  |-> SelectSeq(ss, LAMBDA e : e[1] \notin toRemove),
        times   |-> SelectSeq(ct, LAMBDA e : e[1] \notin toRemove),
        removed |-> Cardinality(toRemove) ]

\* updateCache that limits the size only above MAX_CACHE_SIZE (> for >=)
updateCacheLate(ss, ct, hostname, status, t) ==
  LET m == IF Len(ss) > MAX_CACHE_SIZE
           THEN limitCacheSize(ss, ct)
           ELSE [status |-> ss, times |-> ct, removed |-> 0]
  IN  [ status  |-> MapSet(m.status, hostname, status),
        times   |-> MapSet(m.times, hostname, t),
        removed |-> m.removed ]

updateCache(ss, ct, hostname, status, t) ==
  LET m == IF Len(ss) >= MAX_CACHE_SIZE
           THEN limitCacheSize(ss, ct)
           ELSE [status |-> ss, times |-> ct, removed |-> 0]
  IN  [ status  |-> MapSet(m.status, hostname, status),
        times   |-> MapSet(m.times, hostname, t),
        removed |-> m.removed ]

\* cleanupCache that also removes the entries that expire just now (>= for >)
cleanupCacheEager(ss, ct, t) ==
  LET expiredHosts ==
        { ct[i][1] : i \in { j \in 1..Len(ct) :
             t - ct[j][2] >= getCacheDuration(MapGet(ss, ct[j][1])) } }
  IN  [ status  |-> SelectSeq(ss, LAMBDA e : e[1] \notin expiredHosts),
        times   |-> SelectSeq(ct, LAMBDA e : e[1] \notin expiredHosts),
        removed |-> Cardinality(expiredHosts) ]

cleanupCache(ss, ct, t) ==
  LET expiredHosts ==
        { ct[i][1] : i \in { j \in 1..Len(ct) :
             t - ct[j][2] > getCacheDuration(MapGet(ss, ct[j][1])) } }
  IN  [ status  |-> SelectSeq(ss, LAMBDA e : e[1] \notin expiredHosts),
        times   |-> SelectSeq(ct, LAMBDA e : e[1] \notin expiredHosts),
        removed |-> Cardinality(expiredHosts) ]

----------------------------------------------------------------------------
(* A checkSite call that probes.  checkAvailability issues its probes one   *)
(* after the other; phase/idx name the probe in flight.                     *)

\* What the promise of a fetch, or of the Image probe, can do.
\* tryHeadRequest returns true when fetch resolves and rethrows its error.
NoError       == [name |-> "null", message |-> ""]   \* let httpsError = null
AbortError    == [name |-> "AbortError", message |-> "The user aborted a request."]
FailedToFetch == [name |-> "TypeError", message |-> "Failed to fetch"]
OtherError    == [name |-> "TypeError", message |-> "NetworkError when attempting to fetch resource."]

FetchOutcomes == {"ok", "AbortError", "FailedToFetch", "OtherError"}
ImageOutcomes == {"loaded", "timeout"}

ErrorOf(outcome) ==
  CASE outcome = "AbortError"    -> AbortError
    [] outcome = "FailedToFetch" -> FailedToFetch
    [] outcome = "OtherError"    -> OtherError

\* the test of the message left out
includesAnything(message) == TRUE

\* httpsError.message.includes('Failed to fetch'), on the messages above
includesFailedToFetch(message) == message = "Failed to fetch"

\* last: op is the function that returned, ret its result, via the branch
\* that produced it, hist the outcomes of the probes it had issued, removed
\* the number of entries it removed from the cache (the code logs it).
Done(op, hostname, ret, via, hist, removed) ==
  [ op |-> op, host |-> hostname, ret |-> ret, via |-> via, hist |-> hist,
    removed |-> removed ]

NoOp == Done("none", <<>>, "undefined", "none", <<>>, 0)

CacheInit ==
  /\ now = 0
  /\ siteStatus = <<>>
  /\ checkTimes = <<>>
  /\ calls = <<>>
  /\ last = NoOp

----------------------------------------------------------------------------
(* checkSite(hostname).  The synchronous part runs up to the first await:   *)
(* the early returns, or the timer of the race and the first fetch.         *)

InFlight(hostname) == hostname \in DOMAIN calls

CallPut(hostname, c) ==
  [h \in DOMAIN calls \cup {hostname} |-> IF h = hostname THEN c ELSE calls[h]]

CallDrop(hostname) == [h \in DOMAIN calls \ {hostname} |-> calls[h]]

\* if (this.isLocalNetwork(hostname)) return true;
CheckSiteLocal(hostname) ==
  /\ isLocalNetwork(hostname)
  /\ last' = Done("checkSite", hostname, "true", "local", <<>>, 0)
  /\ UNCHANGED <<now, siteStatus, checkTimes, calls>>
  /\ UNCHANGED <<orderVars, boardVars, checkVars>>

\* if (!this.shouldRecheck(hostname)) return this.getCachedStatus(hostname);
\* shouldRecheck and isCacheValid each read Date.now(): the first read is
\* now, the second read is t2, the same millisecond or the next one.
CheckSiteCached(hostname, t2) ==
  /\ ~isLocalNetwork(hostname)
  /\ ~shouldRecheck(hostname, now)
  /\ t2 \in {now, now + 1}
  /\ now' = t2
  /\ last' = Done("checkSite", hostname, getCachedStatus(hostname, t2), "cache", <<>>, 0)
  /\ UNCHANGED <<siteStatus, checkTimes, calls>>
  /\ UNCHANGED <<orderVars, boardVars, checkVars>>

\* The race is set up and checkAvailability issues its first HTTPS fetch.
\* The model follows one probing call per hostname and MaxInFlight calls in
\* all at a time, and starts one only while its clock can still reach the
\* call's timer.
CheckSiteProbe(hostname, horizon) ==
  /\ ~isLocalNetwork(hostname)
  /\ shouldRecheck(hostname, now)
  /\ ~InFlight(hostname)
  /\ Cardinality(DOMAIN calls) < MaxInFlight
  /\ now + TOTAL_CHECK_TIMEOUT <= horizon
  /\ calls' = CallPut(hostname,
       [ phase |-> "https", idx |-> 1, httpsError |-> NoError, settled |-> FALSE,
         started |-> now, issuedAt |-> now, hist |-> <<>> ])
  /\ UNCHANGED <<now, siteStatus, checkTimes, last>>
  /\ UNCHANGED <<orderVars, boardVars, checkVars>>

checkSite(hostname, times) ==
  \/ CheckSiteLocal(hostname)
  \/ \E t2 \in times : CheckSiteCached(hostname, t2)
  \/ \E horizon \in times : CheckSiteProbe(hostname, horizon)

\* checkAvailability returns status: the call leaves the model; if the race
\* is still open, checkSite caches the status and returns it.
AvailabilityReturns(hostname, status, hist) ==
  /\ calls' = CallDrop(hostname)
  /\ IF calls[hostname].settled
     THEN /\ last' = Done("checkAvailability", hostname, status, "dropped", hist, 0)
          /\ UNCHANGED <<siteStatus, checkTimes>>
     ELSE LET m == updateCache(siteStatus, checkTimes, hostname, status, now)
          IN  /\ siteStatus' = m.status
              /\ checkTimes' = m.times
              /\ last' = Done("checkSite", hostname, status, "availability", hist, m.removed)
  /\ UNCHANGED now

NextProbe(hostname, phase, idx, httpsError, hist) ==
  /\ calls' = [calls EXCEPT ![hostname] =
                 [@ EXCEPT !.phase = phase, !.idx = idx, !.httpsError = httpsError,
                           !.issuedAt = now, !.hist = hist]]
  /\ UNCHANGED <<now, siteStatus, checkTimes, last>>

\* The fetch of tryHeadRequest settles: it resolves ("ok"), is aborted by the
\* TIMEOUT timer, or rejects with a TypeError.
FetchSettles(hostname, outcome) ==
  /\ InFlight(hostname)
  /\ LET c == calls[hostname]
         hist == Append(c.hist, outcome)
     IN  /\ c.phase \in {"https", "http"}
         /\ outcome = "AbortError" => now >= c.issuedAt + TIMEOUT
         /\ IF c.phase = "https"
            THEN IF outcome = "ok"
                 THEN AvailabilityReturns(hostname, "true", hist)
                 ELSE IF c.idx < 3
                      THEN NextProbe(hostname, "https", c.idx + 1, ErrorOf(outcome), hist)
                      ELSE NextProbe(hostname, "http", 1, ErrorOf(outcome), hist)
            ELSE IF outcome = "ok"
                 THEN AvailabilityReturns(hostname, "no-https", hist)
                 ELSE IF c.idx < 3
                      THEN NextProbe(hostname, "http", c.idx + 1, c.httpsError, hist)
                      ELSE NextProbe(hostname, "domain", 1, c.httpsError, hist)
  /\ UNCHANGED <<orderVars, boardVars, checkVars>>

\* The Image of checkDomainExists fires onload/onerror (true), or its timer
\* fires first (false).
ImageSettles(hostname, outcome) ==
  /\ InFlight(hostname)
  /\ LET c == calls[hostname]
         hist == Append(c.hist, outcome)
         domainExists == (outcome = "loaded")
     IN  /\ c.phase = "domain"
         /\ outcome = "timeout" => now >= c.issuedAt + DOMAIN_TIMEOUT
         /\ IF /\ domainExists
               /\ c.httpsError # NoError
               /\ c.httpsError.name = "TypeError"
               /\ includesFailedToFetch(c.httpsError.message)
            THEN AvailabilityReturns(hostname, "certificate-error", hist)
            ELSE AvailabilityReturns(hostname, "false", hist)
  /\ UNCHANGED <<orderVars, boardVars, checkVars>>

\* a catch branch that returns false without caching it
CheckTimeoutUncached(hostname) ==
  /\ InFlight(hostname)
  /\ ~calls[hostname].settled
  /\ now >= calls[hostname].started + TOTAL_CHECK_TIMEOUT
  /\ last' = Done("checkSite", hostname, "false", "timeout", calls[hostname].hist, 0)
  /\ calls' = [calls EXCEPT ![hostname].settled = TRUE]
  /\ UNCHANGED <<now, siteStatus, checkTimes>>
  /\ UNCHANGED <<orderVars, boardVars, checkVars>>

\* The timer of the race fires first: catch, updateCache(hostname, false),
\* return false.  checkAvailability keeps running; its result is dropped.
CheckTimeout(hostname) ==
  /\ InFlight(hostname)
  /\ ~calls[hostname].settled
  /\ now >= calls[hostname].started + TOTAL_CHECK_TIMEOUT
  /\ LET m == updateCache(siteStatus, checkTimes, hostname, "false", now)
     IN  /\ siteStatus' = m.status
         /\ checkTimes' = m.times
         /\ last' = Done("checkSite", hostname, "false", "timeout",
                      calls[hostname].hist, m.removed)
  /\ calls' = [calls EXCEPT ![hostname].settled = TRUE]
  /\ UNCHANGED now
  /\ UNCHANGED <<orderVars, boardVars, checkVars>>

\* setInterval(() => this.cleanupCache(), 15 * 60 * 1000)
CleanupCache ==
  /\ LET m == cleanupCache(siteStatus, checkTimes, now)
     IN  /\ siteStatus' = m.status
         /\ checkTimes' = m.times
         /\ last' = Done("cleanupCache", <<>>, "undefined", "none", <<>>, m.removed)
  /\ UNCHANGED <<now, calls>>
  /\ UNCHANGED <<orderVars, boardVars, checkVars>>

\* Time passes.
Tick(t) ==
  /\ t > now
  /\ now' = t
  /\ UNCHANGED <<siteStatus, checkTimes, calls, last>>
  /\ UNCHANGED <<orderVars, boardVars, checkVars>>

----------------------------------------------------------------------------
(* The order store and the reconciliation of a saved order on render.       *)
(*                                                                          *)
(* A bookmark node is [id, url, tags, children]: url is TRUE for a bookmark *)
(* and FALSE for a folder, tags is the joined tag text parseTitle finds in  *)
(* the title.  IDs are the strings Chrome gives.  A value read from         *)
(* storage is [isNull, val]: null, or the array / object stored under the   *)
(* key.  A stored object is a function from its keys.  A rendered column    *)
(* is [columnType, folderId, list]; an entry of its bookmark list is a      *)
(* bookmark item or a subfolder group with its own items.                   *)

Null == [isNull |-> TRUE, val |-> <<>>]

Some(v) == [isNull |-> FALSE, val |-> v]

Bookmark(id, tags) == [id |-> id, url |-> TRUE, tags |-> tags, children |-> <<>>]

Folder(id, children) == [id |-> id, url |-> FALSE, tags |-> "", children |-> children]

\* The number a canonical numeric string denotes.
ToNumber(id) ==
  CASE id = "0" -> 0 [] id = "1" -> 1 [] id = "2" -> 2 [] id = "3" -> 3
    [] id = "4" -> 4 [] id = "5" -> 5 [] id = "6" -> 6 [] id = "7" -> 7
    [] id = "8" -> 8 [] id = "9" -> 9 [] id = "10" -> 10 [] id = "11" -> 11
    [] id = "20" -> 20 [] id = "99" -> 99

Ids(nodes) == [i \in DOMAIN nodes |-> nodes[i].id]

Range(s) == {s[i] : i \in DOMAIN s}

filterUrl(nodes) == SelectSeq(nodes, LAMBDA n : n.url)

filterFolders(nodes) == SelectSeq(nodes, LAMBDA n : ~n.url)

\* String.prototype.localeCompare on joined tag texts.
localeCompare(x, y) ==
  LET rank(s) == CASE s = "" -> 0 [] s = "a" -> 1 [] s = "b" -> 2
  IN  IF x = y THEN 0 ELSE IF rank(x) < rank(y) THEN -1 ELSE 1

\* The comparator of sortBookmarks.
compareTags(a, b) ==
  IF a.tags # "" /\ b.tags = "" THEN -1
  ELSE IF a.tags = "" /\ b.tags # "" THEN 1
  ELSE localeCompare(a.tags, b.tags)

InsertByTags(e, sorted) ==
  LET later == {i \in DOMAIN sorted : compareTags(sorted[i], e) > 0}
      pos   == IF later = {} THEN Len(sorted) + 1
               ELSE CHOOSE i \in later : \A j \in later : i <= j
  IN  SubSeq(sorted, 1, pos - 1) \o <<e>> \o SubSeq(sorted, pos, Len(sorted))

\* ColumnManager.sortBookmarks: Array.prototype.sort is stable.
RECURSIVE sortBookmarks(_)
sortBookmarks(bookmarks) ==
  IF bookmarks = <<>> THEN <<>>
  ELSE InsertByTags(bookmarks[Len(bookmarks)],
                    sortBookmarks(SubSeq(bookmarks, 1, Len(bookmarks) - 1)))

\* The first loop of renderOrderedBookmarks: a saved ID that is a key of the
\* map is rendered and deleted from the map.
RECURSIVE AppendSaved(_, _, _)
AppendSaved(savedOrder, bookmarkMap, rendered) ==
  IF savedOrder = <<>> THEN [rendered |-> rendered, bookmarkMap |-> bookmarkMap]
  ELSE IF Head(savedOrder) \in bookmarkMap
       THEN AppendSaved(Tail(savedOrder), bookmarkMap \ {Head(savedOrder)},
                        Append(rendered, Head(savedOrder)))
       ELSE AppendSaved(Tail(savedOrder), bookmarkMap, rendered)

\* Object.values of an object whose keys are integer-like: ascending
\* numeric order of the keys.
RECURSIVE ObjectValues(_)
ObjectValues(keys) ==
  IF keys = {} THEN <<>>
  ELSE LET k == CHOOSE k \in keys : \A j \in keys : ToNumber(k) <= ToNumber(j)
       IN  <<k>> \o ObjectValues(keys \ {k})

\* renderOrderedBookmarks without the delete from the map.
renderOrderedBookmarksNoDelete(bookmarks, savedOrder) ==
  LET bookmarkMap == {n.id : n \in Range(filterUrl(bookmarks))}
  IN  SelectSeq(savedOrder, LAMBDA id : id \in bookmarkMap)
        \o ObjectValues(bookmarkMap)

\* ColumnManager.renderOrderedBookmarks: the IDs of the items appended to
\* the container, in order.
renderOrderedBookmarks(bookmarks, savedOrder) ==
  LET bookmarkMap == {n.id : n \in Range(filterUrl(bookmarks))}
      saved       == AppendSaved(savedOrder, bookmarkMap, <<>>)
  IN  saved.rendered \o ObjectValues(saved.bookmarkMap)

\* savedBookmarkOrder && savedBookmarkOrder[key]
HasOrder(savedBookmarkOrder, key) ==
  ~savedBookmarkOrder.isNull /\ key \in DOMAIN savedBookmarkOrder.val

\* `subfolder-${folder.id}`
SubfolderKey(id) ==
  CASE id = "10" -> "subfolder-10" [] id = "11" -> "subfolder-11"
    [] id = "20" -> "subfolder-20"

Item(id) == [group |-> FALSE, id |-> id, items |-> <<>>]

Group(id, items) == [group |-> TRUE, id |-> id, items |-> items]

Items(ids) == [i \in DOMAIN ids |-> Item(ids[i])]

\* ColumnManager.renderFolderColumn.
renderFolderColumn(folder, savedBookmarkOrder) ==
  LET bookmarks == sortBookmarks(filterUrl(folder.children))
  IN  [ columnType |-> "folder",
        folderId   |-> folder.id,
        list       |-> Items(IF HasOrder(savedBookmarkOrder, folder.id)
                             THEN renderOrderedBookmarks(
                                    bookmarks, savedBookmarkOrder.val[folder.id])
                             ELSE Ids(bookmarks)) ]

\* ColumnManager.renderSubfolderGroup: the entries it appends to the list.
renderSubfolderGroup(folder, savedBookmarkOrder) ==
  LET subfolderKey == SubfolderKey(folder.id)
  IN  IF folder.children = <<>> THEN <<>>
      ELSE << Group(folder.id,
                    IF HasOrder(savedBookmarkOrder, subfolderKey)
                    THEN renderOrderedBookmarks(
                           folder.children, savedBookmarkOrder.val[subfolderKey])
                    ELSE Ids(filterUrl(folder.children))) >>

RECURSIVE renderSubfolders(_, _)
renderSubfolders(folders, savedBookmarkOrder) ==
  IF folders = <<>> THEN <<>>
  ELSE renderSubfolderGroup(Head(folders), savedBookmarkOrder)
         \o renderSubfolders(Tail(folders), savedBookmarkOrder)

\* ColumnManager.renderSpecialColumn; folderId is "null" for Uncategorized
\* (the dataset stores the string).
renderSpecialColumn(bookmarks, folderId, type, savedBookmarkOrder) ==
  LET columnStorageId == IF type = "uncategorized" THEN "uncategorized" ELSE folderId
      directBookmarks == sortBookmarks(filterUrl(bookmarks))
  IN  [ columnType |-> type,
        folderId   |-> folderId,
        list       |-> Items(IF columnStorageId # "null"
                                  /\ HasOrder(savedBookmarkOrder, columnStorageId)
                             THEN renderOrderedBookmarks(
                                    directBookmarks,
                                    savedBookmarkOrder.val[columnStorageId])
                             ELSE Ids(directBookmarks))
                       \o renderSubfolders(filterFolders(bookmarks),
                                           savedBookmarkOrder) ]

\* The columnsData of processBookmarkTree: the folders of the bookmark bar,
\* Uncategorized if the bar holds bookmarks directly, then the nodes '2'
\* and '3' when the tree has them.
find(nodes, id) == SelectSeq(nodes, LAMBDA n : n.id = id)

columnsDataOf(node) ==
  LET bookmarkBar    == find(node.children, "1")
      barChildren    == IF bookmarkBar = <<>> THEN <<>> ELSE bookmarkBar[1].children
      folders        == filterFolders(barChildren)
      uncategorized  == filterUrl(barChildren)
      special(id)    == LET f == find(node.children, id)
                        IN  IF f = <<>> THEN <<>>
                            ELSE <<[type |-> "special", data |-> f[1]]>>
  IN  [i \in DOMAIN folders |-> [type |-> "folder", data |-> folders[i]]]
        \o (IF uncategorized = <<>> THEN <<>>
            ELSE <<[type |-> "uncategorized",
                    data |-> Folder("undefined", uncategorized)]>>)
        \o special("2")
        \o special("3")

\* The ID determineColumnOrder gives a column in its second loop.
columnIdOf(col) ==
  IF col.type = "uncategorized" THEN "uncategorized" ELSE col.data.id

\* determineColumnOrder without the second loop.
determineColumnOrderSavedOnly(columnsData, savedColumnOrder) ==
  IF savedColumnOrder.isNull \/ savedColumnOrder.val = <<>> THEN columnsData
  ELSE SelectSeq(columnsData,
                 LAMBDA col : columnIdOf(col) \in Range(savedColumnOrder.val))

RECURSIVE matchSaved(_, _)
matchSaved(columnsData, saved) ==
  IF saved = <<>> THEN <<>>
  ELSE LET matches == SelectSeq(columnsData,
                                LAMBDA col : columnIdOf(col) = Head(saved))
       IN  (IF matches = <<>> THEN <<>> ELSE <<matches[1]>>)
             \o matchSaved(columnsData, Tail(saved))

\* KanbanRenderer.determineColumnOrder.
determineColumnOrder(columnsData, savedColumnOrder) ==
  IF savedColumnOrder.isNull \/ savedColumnOrder.val = <<>> THEN columnsData
  ELSE matchSaved(columnsData, savedColumnOrder.val)
         \o SelectSeq(columnsData,
                      LAMBDA col : columnIdOf(col) \notin Range(savedColumnOrder.val))

\* KanbanRenderer.renderColumn.
renderColumn(columnData, savedBookmarkOrder) ==
  CASE columnData.type = "folder" ->
         renderFolderColumn(columnData.data, savedBookmarkOrder)
    [] columnData.type = "uncategorized" ->
         renderSpecialColumn(columnData.data.children, "null", "uncategorized",
                             savedBookmarkOrder)
    [] columnData.type = "special" ->
         renderSpecialColumn(columnData.data.children, columnData.data.id,
                             "special", savedBookmarkOrder)

\* KanbanRenderer.processBookmarkTree: the columns appended to the board.
processBookmarkTree(node, savedColumnOrder, savedBookmarkOrder) ==
  LET orderedColumns == determineColumnOrder(columnsDataOf(node), savedColumnOrder)
  IN  [i \in DOMAIN orderedColumns |->
         renderColumn(orderedColumns[i], savedBookmarkOrder)]

\* The ID under which a rendered column is stored.
storageIdOf(column) ==
  IF column.columnType = "uncategorized" THEN "uncategorized" ELSE column.folderId

\* saveColumnOrder without the case of the Uncategorized column.
columnOrderOfFolderId(columns) == [i \in DOMAIN columns |-> columns[i].folderId]

\* StorageManager.saveColumnOrder: the array it stores.
columnOrderOf(columns) == [i \in DOMAIN columns |-> storageIdOf(columns[i])]

\* querySelectorAll('.bookmark-item') inside a bookmark list: the items of
\* the list and of its subfolder groups, in document order.
RECURSIVE bookmarkItems(_)
bookmarkItems(list) ==
  IF list = <<>> THEN <<>>
  ELSE (IF Head(list).group THEN Head(list).items ELSE <<Head(list).id>>)
         \o bookmarkItems(Tail(list))

\* StorageManager.collectBookmarkOrderFromDOM.
collectBookmarkOrderFromDOM(columns) ==
  LET saved == {i \in DOMAIN columns : bookmarkItems(columns[i].list) # <<>>}
  IN  [k \in {storageIdOf(columns[i]) : i \in saved} |->
         LET i == CHOOSE i \in saved :
                    /\ storageIdOf(columns[i]) = k
                    /\ \A j \in saved : storageIdOf(columns[j]) = k => j <= i
         IN  bookmarkItems(columns[i].list)]

----------------------------------------------------------------------------
(* Reconciliation as a function of its inputs: arg is a call of one of the  *)
(* render operations, out the IDs it rendered, in order.                    *)

MaxChildren == 3

MaxSaved == 3

MaxSavedColumns == 4

\* The sequences of at most n distinct elements of S.
RECURSIVE Arrangements(_, _)
Arrangements(S, n) ==
  IF n = 0 THEN {<<>>}
  ELSE {<<>>} \cup UNION {{<<x>> \o p : p \in Arrangements(S \ {x}, n - 1)} : x \in S}

\* The sequences of at most n elements of S.
RECURSIVE Lists(_, _)
Lists(S, n) ==
  IF n = 0 THEN {<<>>}
  ELSE {<<>>} \cup {<<x>> \o p : x \in S, p \in Lists(S, n - 1)}

ColumnPool ==
  { Bookmark("5", ""), Bookmark("6", "a"), Bookmark("7", ""),
    Folder("20", <<Bookmark("8", "")>>) }

BarPool == { Folder("10", <<>>), Folder("11", <<>>), Bookmark("5", "") }

SavedBookmarkIds == {"5", "6", "99"}

SavedColumnIds == {"10", "11", "uncategorized", "2", "3", "99"}

TreeOf(barChildren, other, mobile) ==
  Folder("0", <<Folder("1", barChildren)>>
                \o (IF other THEN <<Folder("2", <<>>)>> ELSE <<>>)
                \o (IF mobile THEN <<Folder("3", <<>>)>> ELSE <<>>))

OrderInputs ==
  { [op |-> o, children |-> c, saved |-> s, other |-> FALSE, mobile |-> FALSE] :
      o \in {"folder", "uncategorized", "special"},
      c \in Arrangements(ColumnPool, MaxChildren),
      s \in {Null} \cup {Some(l) : l \in Lists(SavedBookmarkIds, MaxSaved)} }
  \cup
  { [op |-> "board", children |-> c, saved |-> s, other |-> x, mobile |-> m] :
      c \in Arrangements(BarPool, MaxChildren),
      s \in {Null} \cup {Some(l) : l \in Arrangements(SavedColumnIds, MaxSavedColumns)}
               \cup {Some(<<id, id>>) : id \in SavedColumnIds},
      x \in BOOLEAN, m \in BOOLEAN }

NoArg == [op |-> "none", children |-> <<>>, saved |-> Null,
          other |-> FALSE, mobile |-> FALSE]

NoOut == [op |-> "none", ids |-> <<>>]

OrderInit == arg \in OrderInputs /\ out = NoOut

OrderIdle == arg = NoArg /\ out = NoOut

\* The saved bookmark order object a column is rendered with.
SavedUnder(key, saved) == IF saved.isNull THEN Null ELSE Some(key :> saved.val)

DirectIds(list) == Ids(SelectSeq(list, LAMBDA e : ~e.group))

RenderFolderColumn ==
  /\ arg.op = "folder" /\ out.op = "none"
  /\ out' = [op  |-> "renderFolderColumn",
             ids |-> DirectIds(renderFolderColumn(
                       Folder("10", arg.children), SavedUnder("10", arg.saved)).list)]
  /\ UNCHANGED <<arg, cacheVars, boardVars, checkVars>>

RenderSpecialColumn ==
  /\ arg.op \in {"uncategorized", "special"} /\ out.op = "none"
  /\ out' = [op  |-> "renderSpecialColumn",
             ids |-> DirectIds(
                       (IF arg.op = "uncategorized"
                        THEN renderSpecialColumn(arg.children, "null", "uncategorized",
                                                 SavedUnder("uncategorized", arg.saved))
                        ELSE renderSpecialColumn(arg.children, "2", "special",
                                                 SavedUnder("2", arg.saved))).list)]
  /\ UNCHANGED <<arg, cacheVars, boardVars, checkVars>>

DetermineColumnOrder ==
  /\ arg.op = "board" /\ out.op = "none"
  /\ out' = [op  |-> "determineColumnOrder",
             ids |-> LET ordered == determineColumnOrder(
                                      columnsDataOf(TreeOf(arg.children, arg.other,
                                                           arg.mobile)),
                                      arg.saved)
                     IN  [i \in DOMAIN ordered |-> columnIdOf(ordered[i])]]
  /\ UNCHANGED <<arg, cacheVars, boardVars, checkVars>>

OrderNext ==
  \/ RenderFolderColumn
  \/ RenderSpecialColumn
  \/ DetermineColumnOrder

----------------------------------------------------------------------------
(* The new-tab page: the bookmark tree of the browser, the order store in   *)
(* chrome.storage.sync, the board in the DOM, and the handlers that read    *)
(* and write them.  A render is followed through its awaits; a re-render    *)
(* starts when no render is in progress.                                    *)

\* Bookmarks the user deletes in one run of the page.
MaxRemoved == 1

RECURSIVE removeFromTree(_, _)
removeFromTree(node, id) ==
  LET kept == SelectSeq(node.children, LAMBDA n : n.id # id)
  IN  [node EXCEPT !.children = [i \in DOMAIN kept |-> removeFromTree(kept[i], id)]]

RECURSIVE bookmarkIdsIn(_)
bookmarkIdsIn(node) ==
  IF node.url THEN {node.id}
  ELSE UNION {bookmarkIdsIn(node.children[i]) : i \in DOMAIN node.children}

\* The tree the browser holds when the page opens.
BoardTree ==
  Folder("0",
    << Folder("1", << Folder("10", <<Bookmark("5", ""), Bookmark("6", "a")>>),
                      Bookmark("7", "") >>),
       Folder("2", << Bookmark("8", ""), Folder("20", <<Bookmark("9", "")>>) >>) >>)

EmptyContainer == [board |-> FALSE, columns |-> <<>>]

NoRender ==
  [pc |-> "idle", by |-> "none", bookmarkTree |-> Folder("0", <<>>),
   savedColumnOrder |-> Null]

\* document.querySelector(`[data-bookmark-id="${id}"]`) finds an item.
HasItem(columns, id) ==
  \E i \in DOMAIN columns : id \in Range(bookmarkItems(columns[i].list))

removeEntry(list, id) ==
  LET kept == SelectSeq(list, LAMBDA e : e.group \/ e.id # id)
  IN  [i \in DOMAIN kept |->
         IF kept[i].group
         THEN [kept[i] EXCEPT !.items = SelectSeq(@, LAMBDA x : x # id)]
         ELSE kept[i]]

\* Element.remove() of the item of bookmark id.
removeItem(columns, id) ==
  [i \in DOMAIN columns |-> [columns[i] EXCEPT !.list = removeEntry(@, id)]]

\* The sequence with its element at from moved to position to.
moveTo(s, from, to) ==
  LET rest == SubSeq(s, 1, from - 1) \o SubSeq(s, from + 1, Len(s))
  IN  SubSeq(rest, 1, to - 1) \o <<s[from]>> \o SubSeq(rest, to, Len(rest))

\* DragManager.saveColumnOrder: nothing is stored when the board has no
\* column.
saveColumnOrder(st, columns) ==
  IF columns = <<>> THEN st
  ELSE [st EXCEPT !.columnOrder = Some(columnOrderOf(columns))]

\* DragManager.saveBookmarkOrder.
saveBookmarkOrder(st, columns) ==
  [st EXCEPT !.bookmarkOrder = Some(collectBookmarkOrderFromDOM(columns))]

BoardInit ==
  /\ tree = BoardTree
  /\ storage = [columnOrder |-> Null, bookmarkOrder |-> Null]
  /\ dom = EmptyContainer
  /\ render = [NoRender EXCEPT !.pc = "renderKanban", !.by = "initialize"]
  /\ timers = [change |-> FALSE, removal |-> {}]
  /\ deleting = {}
  /\ isDragging = FALSE
  /\ listening = FALSE
  /\ moves = <<>>
  /\ popup = "closed"

BoardIdle ==
  /\ tree = Folder("0", <<>>)
  /\ storage = [columnOrder |-> Null, bookmarkOrder |-> Null]
  /\ dom = EmptyContainer
  /\ render = NoRender
  /\ timers = [change |-> FALSE, removal |-> {}]
  /\ deleting = {}
  /\ isDragging = FALSE
  /\ listening = FALSE
  /\ moves = <<>>
  /\ popup = "closed"

\* UIManager.renderKanban resumes after its await and calls renderBoard,
\* which empties the container, adds the board and awaits the tree.
RenderBoardStarts ==
  /\ render.pc = "renderKanban"
  /\ dom' = [board |-> TRUE, columns |-> <<>>]
  /\ render' = [render EXCEPT !.pc = "getBookmarkTree"]
  /\ UNCHANGED <<tree, storage, timers, deleting, isDragging, listening>>
  /\ UNCHANGED <<cacheVars, orderVars, checkVars, moves, popup>>

\* renderBoard resumes with the bookmark tree and awaits the column order.
TreeArrives ==
  /\ render.pc = "getBookmarkTree"
  /\ render' = [render EXCEPT !.pc = "getColumnOrder", !.bookmarkTree = tree]
  /\ UNCHANGED <<tree, storage, dom, timers, deleting, isDragging, listening>>
  /\ UNCHANGED <<cacheVars, orderVars, checkVars, moves, popup>>

\* renderBoard resumes with the column order and awaits the bookmark order.
ColumnOrderArrives ==
  /\ render.pc = "getColumnOrder"
  /\ render' = [render EXCEPT !.pc = "getBookmarkOrder",
                              !.savedColumnOrder = storage.columnOrder]
  /\ UNCHANGED <<tree, storage, dom, timers, deleting, isDragging, listening>>
  /\ UNCHANGED <<cacheVars, orderVars, checkVars, moves, popup>>

\* renderBoard resumes with the bookmark order and renders the columns; the
\* caller continues: initialize sets up the event listeners,
\* handleBookmarksChange saves the layout.
BookmarkOrderArrives ==
  /\ render.pc = "getBookmarkOrder"
  /\ LET columns == processBookmarkTree(render.bookmarkTree,
                                        render.savedColumnOrder,
                                        storage.bookmarkOrder)
     IN  /\ dom' = [board |-> TRUE, columns |-> columns]
         /\ IF render.by = "initialize"
            THEN listening' = TRUE /\ UNCHANGED storage
            ELSE /\ storage' = saveBookmarkOrder(saveColumnOrder(storage, columns),
                                                 columns)
                 /\ UNCHANGED listening
  /\ render' = NoRender
  /\ UNCHANGED <<tree, timers, deleting, isDragging>>
  /\ UNCHANGED <<cacheVars, orderVars, checkVars, moves, popup>>

\* The Refresh button: refreshBookmarkTree calls the change listener, and
\* handleBookmarksChange (re)arms its 300 ms timer.
refreshBookmarkTree ==
  /\ listening
  /\ ~timers.change
  /\ timers' = [timers EXCEPT !.change = TRUE]
  /\ UNCHANGED <<tree, storage, dom, render, deleting, isDragging, listening>>
  /\ UNCHANGED <<cacheVars, orderVars, checkVars, moves, popup>>

\* The timer of handleBookmarksChange fires: nothing happens during a drag,
\* otherwise renderKanban empties the container and awaits the tree.
handleBookmarksChange ==
  /\ timers.change
  /\ render.pc = "idle"
  /\ timers' = [timers EXCEPT !.change = FALSE]
  /\ IF isDragging THEN UNCHANGED <<dom, render>>
     ELSE /\ dom' = EmptyContainer
          /\ render' = [NoRender EXCEPT !.pc = "renderKanban",
                                        !.by = "handleBookmarksChange"]
  /\ UNCHANGED <<tree, storage, deleting, isDragging, listening>>
  /\ UNCHANGED <<cacheVars, orderVars, checkVars, moves, popup>>

\* The confirm button of the delete dialog: chrome.bookmarks.remove.
ConfirmDelete(id) ==
  /\ listening
  /\ id \in bookmarkIdsIn(tree)
  /\ Cardinality(bookmarkIdsIn(BoardTree) \ bookmarkIdsIn(tree)) < MaxRemoved
  /\ tree' = removeFromTree(tree, id)
  /\ deleting' = deleting \cup {id}
  /\ UNCHANGED <<storage, dom, render, timers, isDragging, listening>>
  /\ UNCHANGED <<cacheVars, orderVars, checkVars, moves, popup>>

\* The confirm handler resumes after deleteBookmark: an item that is in the
\* document fades out and gets a 300 ms timer.
DeleteResumes(id) ==
  /\ id \in deleting
  /\ deleting' = deleting \ {id}
  /\ timers' = IF HasItem(dom.columns, id)
               THEN [timers EXCEPT !.removal = @ \cup {id}]
               ELSE timers
  /\ UNCHANGED <<tree, storage, dom, render, isDragging, listening>>
  /\ UNCHANGED <<cacheVars, orderVars, checkVars, moves, popup>>

\* The removal timer fires: the item is removed and the bookmark order
\* collected from the document is stored.
RemovalTimerFires(id) ==
  /\ id \in timers.removal
  /\ timers' = [timers EXCEPT !.removal = @ \ {id}]
  /\ dom' = [dom EXCEPT !.columns = removeItem(@, id)]
  /\ storage' = saveBookmarkOrder(storage, dom'.columns)
  /\ UNCHANGED <<tree, render, deleting, isDragging, listening>>
  /\ UNCHANGED <<cacheVars, orderVars, checkVars, moves, popup>>

\* Ctrl/Cmd+S: EventManager.saveCurrentLayout.
saveCurrentLayout ==
  /\ listening
  /\ storage' = saveBookmarkOrder(saveColumnOrder(storage, dom.columns), dom.columns)
  /\ UNCHANGED <<tree, dom, render, timers, deleting, isDragging, listening>>
  /\ UNCHANGED <<cacheVars, orderVars, checkVars, moves, popup>>

\* onStart of a Sortable of the rendered board.
DragStarts ==
  /\ listening /\ render.pc = "idle" /\ ~isDragging
  /\ dom.columns # <<>>
  /\ isDragging' = TRUE
  /\ UNCHANGED <<tree, storage, dom, render, timers, deleting, listening>>
  /\ UNCHANGED <<cacheVars, orderVars, checkVars, moves, popup>>

\* onEnd of the board's Sortable: a column was dropped at position to.
ColumnDragEnds(from, to) ==
  /\ isDragging
  /\ from \in DOMAIN dom.columns /\ to \in DOMAIN dom.columns
  /\ isDragging' = FALSE
  /\ dom' = [dom EXCEPT !.columns = moveTo(@, from, to)]
  /\ storage' = saveColumnOrder(storage, dom'.columns)
  /\ UNCHANGED <<tree, render, timers, deleting, listening>>
  /\ UNCHANGED <<cacheVars, orderVars, checkVars, moves, popup>>

\* onEnd of a bookmark list that calls chrome.bookmarks.move whether or not
\* the item left its list (no test of evt.from !== evt.to)
BookmarkDragEndsMoving(c, from, to) ==
  /\ isDragging
  /\ c \in DOMAIN dom.columns
  /\ from \in DOMAIN dom.columns[c].list /\ to \in DOMAIN dom.columns[c].list
  /\ ~dom.columns[c].list[from].group
  /\ isDragging' = FALSE
  /\ dom' = [dom EXCEPT !.columns[c].list = moveTo(@, from, to)]
  /\ moves' = Append(moves, [id |-> dom.columns[c].list[from].id, pc |-> "pending",
                             to |-> [parentId |-> dom.columns[c].folderId,
                                     index    |-> to - 1]])
  /\ UNCHANGED <<tree, storage, render, timers, deleting, listening>>
  /\ UNCHANGED <<cacheVars, orderVars, checkVars, popup>>

\* onEnd of a bookmark list's Sortable, the item dropped in its own list.
BookmarkDragEnds(c, from, to) ==
  /\ isDragging
  /\ c \in DOMAIN dom.columns
  /\ from \in DOMAIN dom.columns[c].list /\ to \in DOMAIN dom.columns[c].list
  /\ ~dom.columns[c].list[from].group
  /\ isDragging' = FALSE
  /\ dom' = [dom EXCEPT !.columns[c].list = moveTo(@, from, to)]
  /\ storage' = saveBookmarkOrder(storage, dom'.columns)
  /\ UNCHANGED <<tree, render, timers, deleting, listening>>
  /\ UNCHANGED <<cacheVars, orderVars, checkVars, moves, popup>>

BoardNext ==
  \/ RenderBoardStarts
  \/ TreeArrives
  \/ ColumnOrderArrives
  \/ BookmarkOrderArrives
  \/ refreshBookmarkTree
  \/ handleBookmarksChange
  \/ \E id \in bookmarkIdsIn(BoardTree) : ConfirmDelete(id)
  \/ \E id \in bookmarkIdsIn(BoardTree) : DeleteResumes(id)
  \/ \E id \in bookmarkIdsIn(BoardTree) : RemovalTimerFires(id)
  \/ saveCurrentLayout
  \/ DragStarts
  \/ \E from, to \in DOMAIN dom.columns : ColumnDragEnds(from, to)
  \/ \E c \in DOMAIN dom.columns :
       \E from, to \in DOMAIN dom.columns[c].list : BookmarkDragEnds(c, from, to)

----------------------------------------------------------------------------
(* Reset of the layout, from the settings of the page and from the popup.   *)

\* clearAllOrderData that removes only the column order
clearColumnOrderOnly(st) == [st EXCEPT !.columnOrder = Null]

\* StorageManager.clearAllOrderData: chrome.storage.sync.remove of both keys.
clearAllOrderData(st) == [columnOrder |-> Null, bookmarkOrder |-> Null]

\* AppCoordinator.resetLayout: the order data is cleared and the page
\* reloads; the new page has no timers and starts its first render.
resetLayout ==
  /\ listening
  /\ storage' = clearAllOrderData(storage)
  /\ dom' = EmptyContainer
  /\ render' = [NoRender EXCEPT !.pc = "renderKanban", !.by = "initialize"]
  /\ timers' = [change |-> FALSE, removal |-> {}]
  /\ deleting' = {}
  /\ isDragging' = FALSE
  /\ listening' = FALSE
  /\ UNCHANGED <<tree, moves, popup>>
  /\ UNCHANGED <<cacheVars, orderVars, checkVars>>

\* PopupManager.handleResetLayout after the confirmation: the order data is
\* cleared and the popup awaits chrome.tabs.query.
handleResetLayout ==
  /\ popup = "closed"
  /\ storage' = clearAllOrderData(storage)
  /\ popup' = "query"
  /\ UNCHANGED <<tree, dom, render, timers, deleting, isDragging, listening, moves>>
  /\ UNCHANGED <<cacheVars, orderVars, checkVars>>

\* handleResetLayout resumes and reloads the new-tab page, then shows its
\* toast.
PopupReloads ==
  /\ popup = "query"
  /\ popup' = "reloaded"
  /\ dom' = EmptyContainer
  /\ render' = [NoRender EXCEPT !.pc = "renderKanban", !.by = "initialize"]
  /\ timers' = [change |-> FALSE, removal |-> {}]
  /\ deleting' = {}
  /\ isDragging' = FALSE
  /\ listening' = FALSE
  /\ UNCHANGED <<tree, storage, moves>>
  /\ UNCHANGED <<cacheVars, orderVars, checkVars>>

\* The popup closes 1500 ms after the reset.
PopupCloses ==
  /\ popup = "reloaded"
  /\ popup' = "closed"
  /\ UNCHANGED <<tree, storage, dom, render, timers, deleting, isDragging,
                 listening, moves>>
  /\ UNCHANGED <<cacheVars, orderVars, checkVars>>

ResetNext ==
  \/ RenderBoardStarts
  \/ TreeArrives
  \/ ColumnOrderArrives
  \/ BookmarkOrderArrives
  \/ refreshBookmarkTree
  \/ handleBookmarksChange
  \/ DragStarts
  \/ \E from, to \in DOMAIN dom.columns : ColumnDragEnds(from, to)
  \/ \E c \in DOMAIN dom.columns :
       \E from, to \in DOMAIN dom.columns[c].list : BookmarkDragEnds(c, from, to)
  \/ resetLayout
  \/ handleResetLayout
  \/ PopupReloads
  \/ PopupCloses

----------------------------------------------------------------------------
(* The bookmark check of the background script.  A click on the check       *)
(* button of a page sends CHECK_BOOKMARKS; the background script answers    *)
(* and calls checkAllBookmarks, which reads the tree, probes the bookmarks  *)
(* in batches, writes the results and tells every tab.  Each run is         *)
(* followed through its awaits, with the messages it has broadcast.         *)

\* Clicks that reach the background script in one session.
MaxRuns == 2

\* const batchSize (10 in the source).
batchSize == 2

\* Bookmarks in the tree that is checked.
MaxBookmarks == 3

Tabs == {"t1", "t2"}

\* The bookmarks whose URL new URL() rejects.
BadUrlIds == {"99"}

\* The results checkSite gives the runs.
SiteStatuses == {"true", "false"}

\* traverseBookmarks with the callbacks of checkAllBookmarks: the nodes
\* with a URL, in the order they are visited.
RECURSIVE traverseBookmarks(_)
traverseBookmarks(bookmarks) ==
  IF bookmarks = <<>> THEN <<>>
  ELSE (IF Head(bookmarks).url THEN <<Head(bookmarks)>>
        ELSE traverseBookmarks(Head(bookmarks).children))
         \o traverseBookmarks(Tail(bookmarks))

\* bookmarksToCheck: the bookmarks whose URL parses.
bookmarksToCheckOf(bookmarks) ==
  Ids(SelectSeq(traverseBookmarks(bookmarks), LAMBDA b : b.id \notin BadUrlIds))

\* bookmarksToCheck.slice(i, i + batchSize) without its bound
sliceToEnd(toCheck, i) == SubSeq(toCheck, i + 1, Len(toCheck))

\* bookmarksToCheck.slice(i, i + batchSize)
batchOf(toCheck, i) == SubSeq(toCheck, i + 1, Min(i + batchSize, Len(toCheck)))

\* checked += batchSize
checkedFullBatch(checked, batch) == checked + batchSize

\* checked += batch.length
checkedAfter(checked, batch) == checked + Len(batch)

NewRun ==
  [pc |-> "sent", total |-> 0, bookmarksToCheck |-> <<>>, i |-> 0,
   pending |-> {}, results |-> <<>>, checked |-> 0,
   progress |-> <<>>, terminal |-> <<>>]

\* chrome.tabs.query({}) and sendMessage to every tab: what the page's
\* message handler will act on (CHECK_PROGRESS changes no state kept here).
broadcast(boxes, type) == [t \in Tabs |-> Append(boxes[t], type)]

CheckIdle ==
  /\ runs = <<>>
  /\ currentSessionResults = <<>>
  /\ store = [hasSession |-> TRUE, session |-> Null, local |-> Null]
  /\ checking = [t \in Tabs |-> FALSE]
  /\ inbox = [t \in Tabs |-> <<>>]

\* The trees that are checked: bookmarks of the bar, one of them with a URL
\* that does not parse.
CheckTrees ==
  { Folder("0", <<Folder("1", [i \in DOMAIN ids |-> Bookmark(ids[i], "")])>>) :
      ids \in {s \in Lists({"5", "99", "6", "7"}, MaxBookmarks) :
                 \A i, j \in DOMAIN s : i < j => ToNumber(s[i]) < ToNumber(s[j])} }

CheckInit ==
  /\ runs = <<>>
  /\ currentSessionResults = <<>>
  /\ store \in {[hasSession |-> h, session |-> Null, local |-> Null] : h \in BOOLEAN}
  /\ checking = [t \in Tabs |-> FALSE]
  /\ inbox = [t \in Tabs |-> <<>>]

\* SiteCheckManager.handleSiteCheck: the button is not marked as checking,
\* CHECK_BOOKMARKS is sent.
Click(t) ==
  /\ ~checking[t]
  /\ Len(runs) < MaxRuns
  /\ runs' = Append(runs, NewRun)
  /\ UNCHANGED <<currentSessionResults, store, checking, inbox>>
  /\ UNCHANGED <<cacheVars, orderVars, boardVars>>

\* onMessage of the background script, CHECK_BOOKMARKS: it answers and
\* calls checkAllBookmarks, which awaits chrome.bookmarks.getTree.
ReceiveCheckBookmarks(r) ==
  /\ r \in DOMAIN runs /\ runs[r].pc = "sent"
  /\ runs' = [runs EXCEPT ![r].pc = "getTree"]
  /\ UNCHANGED <<currentSessionResults, store, checking, inbox>>
  /\ UNCHANGED <<cacheVars, orderVars, boardVars>>

\* The run after a batch has settled, or before the first: the next batch
\* is started, or the results become currentSessionResults and are written.
startBatch(run) ==
  IF run.i < Len(run.bookmarksToCheck)
  THEN [run EXCEPT !.pc = "batch",
                   !.pending = Range(batchOf(run.bookmarksToCheck, run.i))]
  ELSE [run EXCEPT !.pc = "set"]

\* getTree settles: checkAllBookmarks counts the bookmarks, broadcasts
\* CHECK_STARTED, collects the bookmarks to check and starts the first
\* batch; a rejection is caught and CHECK_FAILED is broadcast.
GetTreeSettles(r, ok) ==
  /\ r \in DOMAIN runs /\ runs[r].pc = "getTree"
  /\ IF ok
     THEN LET run == startBatch(
                       [runs[r] EXCEPT
                          !.total = Len(traverseBookmarks(<<tree>>)),
                          !.bookmarksToCheck = bookmarksToCheckOf(<<tree>>)])
          IN  /\ runs' = [runs EXCEPT ![r] = run]
              /\ inbox' = broadcast(inbox, "CHECK_STARTED")
              /\ currentSessionResults' =
                   IF run.pc = "set" THEN run.results ELSE currentSessionResults
     ELSE /\ runs' = [runs EXCEPT ![r].pc = "failed",
                                  ![r].terminal = Append(@, [type |-> "CHECK_FAILED"])]
          /\ inbox' = broadcast(inbox, "CHECK_FAILED")
          /\ UNCHANGED currentSessionResults
  /\ UNCHANGED <<store, checking>>
  /\ UNCHANGED <<cacheVars, orderVars, boardVars>>

\* A checkSite call of the batch settles and its result is recorded.  With
\* the last one Promise.all settles: checked is advanced, CHECK_PROGRESS is
\* broadcast and the loop goes on.
CheckSiteSettles(r, b, status) ==
  /\ r \in DOMAIN runs /\ runs[r].pc = "batch" /\ b \in runs[r].pending
  /\ LET settled == [runs[r] EXCEPT !.results = (b :> status) @@ @,
                                    !.pending = @ \ {b}]
         batch   == batchOf(settled.bookmarksToCheck, settled.i)
         checked == checkedAfter(settled.checked, batch)
         run     == IF settled.pending # {} THEN settled
                    ELSE startBatch(
                           [settled EXCEPT
                              !.checked = checked,
                              !.progress = Append(@, [checked |-> checked,
                                                      total   |-> settled.total]),
                              !.i = @ + batchSize])
     IN  /\ runs' = [runs EXCEPT ![r] = run]
         /\ currentSessionResults' =
              IF run.pc = "set" THEN run.results ELSE currentSessionResults
  /\ UNCHANGED <<store, checking, inbox>>
  /\ UNCHANGED <<cacheVars, orderVars, boardVars>>

\* chrome.storage.session.set (local when there is no session storage)
\* settles: the object the run passed is stored and CHECK_COMPLETED is
\* broadcast with currentSessionResults; a rejection is caught and
\* CHECK_FAILED is broadcast.
StorageSetSettles(r, ok) ==
  /\ r \in DOMAIN runs /\ runs[r].pc = "set"
  /\ IF ok
     THEN /\ store' = IF store.hasSession
                      THEN [store EXCEPT !.session = Some(runs[r].results)]
                      ELSE [store EXCEPT !.local = Some(runs[r].results)]
          /\ runs' = [runs EXCEPT
                        ![r].pc = "done",
                        ![r].terminal = Append(@, [type |-> "CHECK_COMPLETED",
                                                   siteStatus |-> currentSessionResults])]
          /\ inbox' = broadcast(inbox, "CHECK_COMPLETED")
     ELSE /\ runs' = [runs EXCEPT ![r].pc = "failed",
                                  ![r].terminal = Append(@, [type |-> "CHECK_FAILED"])]
          /\ inbox' = broadcast(inbox, "CHECK_FAILED")
          /\ UNCHANGED store
  /\ UNCHANGED <<currentSessionResults, checking>>
  /\ UNCHANGED <<cacheVars, orderVars, boardVars>>

\* MessageHandler of a page takes the next message: CHECK_STARTED marks the
\* button as checking, CHECK_COMPLETED and CHECK_FAILED unmark it.
TabHandles(t) ==
  /\ inbox[t] # <<>>
  /\ checking' = [checking EXCEPT ![t] = (Head(inbox[t]) = "CHECK_STARTED")]
  /\ inbox' = [inbox EXCEPT ![t] = Tail(@)]
  /\ UNCHANGED <<runs, currentSessionResults, store>>
  /\ UNCHANGED <<cacheVars, orderVars, boardVars>>

\* The steps of the background script and of the pages in the tabs given,
\* checkSite resolving to one of the statuses given.
CheckNextOn(tabs, statuses) ==
  \/ \E t \in tabs : Click(t)
  \/ \E r \in DOMAIN runs : ReceiveCheckBookmarks(r)
  \/ \E r \in DOMAIN runs, ok \in BOOLEAN : GetTreeSettles(r, ok)
  \/ \E r \in DOMAIN runs :
       \E b \in runs[r].pending, status \in statuses : CheckSiteSettles(r, b, status)
  \/ \E r \in DOMAIN runs, ok \in BOOLEAN : StorageSetSettles(r, ok)
  \/ \E t \in tabs : TabHandles(t)

CheckNext == CheckNextOn(Tabs, SiteStatuses)

\* One page in use, the other tab in the background, every site alive.
RunNext == CheckNextOn({"t1"}, {"true"})

----------------------------------------------------------------------------
(* Drags that end in another list.  The Sortable of the list the drag       *)
(* started in runs its onEnd; a bookmark list's onEnd calls                 *)
(* chrome.bookmarks.move and saves the order when the call has settled, a   *)
(* subfolder group's onEnd only saves the order.                            *)

\* Calls of chrome.bookmarks.move in one run of the page.
MaxMoves == 1

insertAt(s, to, x) == SubSeq(s, 1, to - 1) \o <<x>> \o SubSeq(s, to, Len(s))

RECURSIVE nodesOf(_, _)
nodesOf(node, id) ==
  (IF node.id = id THEN {node} ELSE {})
    \cup UNION {nodesOf(node.children[i], id) : i \in DOMAIN node.children}

\* The folders that have a child with this ID.
RECURSIVE parentsOf(_, _)
parentsOf(node, id) ==
  (IF \E i \in DOMAIN node.children : node.children[i].id = id THEN {node} ELSE {})
    \cup UNION {parentsOf(node.children[i], id) : i \in DOMAIN node.children}

RECURSIVE insertChild(_, _, _, _)
insertChild(node, parentId, index, n) ==
  IF node.id = parentId
  THEN [node EXCEPT !.children = insertAt(node.children, index + 1, n)]
  ELSE [node EXCEPT !.children =
          [i \in DOMAIN node.children |->
             insertChild(node.children[i], parentId, index, n)]]

\* chrome.bookmarks.move(id, {parentId, index}) as BookmarkManager.moveBookmark
\* calls it: the tree afterwards, and whether lastError was set.  An index
\* past the end of the new parent is an error; within one parent an index
\* after the old position counts the node itself.
bookmarksMove(t, id, parentId, index) ==
  LET nodes   == nodesOf(t, id)
      parents == nodesOf(t, parentId)
  IN  IF nodes = {} \/ parents = {} \/ parentsOf(t, id) = {}
      THEN [ok |-> FALSE, tree |-> t]
      ELSE LET n      == CHOOSE x \in nodes : TRUE
               parent == CHOOSE x \in parents : TRUE
               old    == CHOOSE x \in parentsOf(t, id) : TRUE
               oldIdx == CHOOSE i \in DOMAIN old.children : old.children[i].id = id
               at     == IF old.id = parentId /\ oldIdx - 1 < index
                         THEN index - 1 ELSE index
           IN  IF parent.url \/ index > Len(parent.children)
               THEN [ok |-> FALSE, tree |-> t]
               ELSE [ok |-> TRUE,
                     tree |-> insertChild(removeFromTree(t, id), parentId, at, n)]

\* The lists an item can be dropped in: the bookmark list of a column
\* (gid = "") and the subfolder groups inside it.
DropTargets(columns) ==
  {[c |-> c, gid |-> ""] : c \in DOMAIN columns}
    \cup UNION {{[c |-> c, gid |-> columns[c].list[g].id] :
                   g \in {g \in DOMAIN columns[c].list : columns[c].list[g].group}} :
                 c \in DOMAIN columns}

\* The lists that hold the item of bookmark id.
ListsOf(columns, id) ==
  {t \in DropTargets(columns) :
     \E e \in DOMAIN columns[t.c].list :
        LET entry == columns[t.c].list[e]
        IN  IF t.gid = "" THEN ~entry.group /\ entry.id = id
            ELSE entry.group /\ entry.id = t.gid /\ id \in Range(entry.items)}

\* The children of evt.to that are bookmark items or groups.
TargetLen(columns, t) ==
  IF t.gid = "" THEN Len(columns[t.c].list)
  ELSE LET g == CHOOSE g \in DOMAIN columns[t.c].list :
                  columns[t.c].list[g].group /\ columns[t.c].list[g].id = t.gid
       IN  Len(columns[t.c].list[g].items)

\* Sortable takes the item out of its list and puts it at position to of
\* the list it was dropped in.
dropItem(columns, id, t, to) ==
  LET rest == removeItem(columns, id)
      list == rest[t.c].list
  IN  [rest EXCEPT ![t.c].list =
         IF t.gid = "" THEN insertAt(list, to, Item(id))
         ELSE [i \in DOMAIN list |->
                 IF list[i].group /\ list[i].id = t.gid
                 THEN [list[i] EXCEPT !.items = insertAt(list[i].items, to, id)]
                 ELSE list[i]]]

\* handleBookmarkMove up to its await: the destination it passes.
moveDestination(columns, t, to) ==
  [parentId |-> IF columns[t.c].columnType = "uncategorized" THEN "1"
                ELSE columns[t.c].folderId,
   index    |-> IF t.gid = "" THEN to - 1 ELSE to]

\* onEnd of a bookmark list's Sortable, the item dropped in another list:
\* handleBookmarkMove calls chrome.bookmarks.move and awaits it.
BookmarkMoveEnds(c, from, t, to) ==
  /\ isDragging
  /\ Len(moves) < MaxMoves
  /\ c \in DOMAIN dom.columns /\ from \in DOMAIN dom.columns[c].list
  /\ ~dom.columns[c].list[from].group
  /\ t \in DropTargets(dom.columns) /\ t # [c |-> c, gid |-> ""]
  /\ to \in 1..(TargetLen(dom.columns, t) + 1)
  /\ LET id == dom.columns[c].list[from].id
     IN  /\ dom' = [dom EXCEPT !.columns = dropItem(dom.columns, id, t, to)]
         /\ moves' = Append(moves, [id |-> id, pc |-> "pending",
                                    to |-> moveDestination(dom'.columns, t, to)])
  /\ isDragging' = FALSE
  /\ UNCHANGED <<tree, storage, render, timers, deleting, listening>>
  /\ UNCHANGED <<cacheVars, orderVars, checkVars, popup>>

\* The callback of chrome.bookmarks.move: handleBookmarkMove resumes (an
\* error is caught and logged) and onEnd saves the bookmark order.
MoveResumes(i) ==
  /\ i \in DOMAIN moves /\ moves[i].pc = "pending"
  /\ tree' = bookmarksMove(tree, moves[i].id, moves[i].to.parentId,
                           moves[i].to.index).tree
  /\ moves' = [moves EXCEPT ![i].pc = "done"]
  /\ storage' = saveBookmarkOrder(storage, dom.columns)
  /\ UNCHANGED <<dom, render, timers, deleting, isDragging, listening>>
  /\ UNCHANGED <<cacheVars, orderVars, checkVars, popup>>

\* onEnd of a subfolder group's Sortable, which has no onStart: the item of
\* the group was dropped at position to of a list.
GroupDragEnds(s, from, t, to) ==
  /\ listening /\ render.pc = "idle"
  /\ s \in DropTargets(dom.columns) /\ s.gid # ""
  /\ t \in DropTargets(dom.columns)
  /\ from \in 1..TargetLen(dom.columns, s)
  /\ to \in 1..(TargetLen(dom.columns, t) + (IF s = t THEN 0 ELSE 1))
  /\ LET g  == CHOOSE g \in DOMAIN dom.columns[s.c].list :
                 dom.columns[s.c].list[g].group /\ dom.columns[s.c].list[g].id = s.gid
         id == dom.columns[s.c].list[g].items[from]
     IN  dom' = [dom EXCEPT !.columns = dropItem(dom.columns, id, t, to)]
  /\ storage' = saveBookmarkOrder(storage, dom'.columns)
  /\ UNCHANGED <<tree, render, timers, deleting, isDragging, listening, moves>>
  /\ UNCHANGED <<cacheVars, orderVars, checkVars, popup>>

\* The tree of the page on which drags are followed: the Uncategorized
\* column and a special column with a subfolder group.
DragTree ==
  Folder("0",
    << Folder("1", << Bookmark("7", "") >>),
       Folder("2", << Bookmark("8", ""), Folder("20", <<Bookmark("9", "")>>) >>) >>)

DragInit ==
  /\ CacheInit /\ OrderIdle /\ CheckIdle
  /\ tree = DragTree
  /\ storage = [columnOrder |-> Null, bookmarkOrder |-> Null]
  /\ dom = EmptyContainer
  /\ render = [NoRender EXCEPT !.pc = "renderKanban", !.by = "initialize"]
  /\ timers = [change |-> FALSE, removal |-> {}]
  /\ deleting = {}
  /\ isDragging = FALSE
  /\ listening = FALSE
  /\ moves = <<>>
  /\ popup = "closed"

DragNext ==
  \/ RenderBoardStarts
  \/ TreeArrives
  \/ ColumnOrderArrives
  \/ BookmarkOrderArrives
  \/ DragStarts
  \/ \E from, to \in DOMAIN dom.columns : ColumnDragEnds(from, to)
  \/ \E c \in DOMAIN dom.columns :
       \E from, to \in DOMAIN dom.columns[c].list : BookmarkDragEnds(c, from, to)
  \/ \E c \in DOMAIN dom.columns, t \in DropTargets(dom.columns) :
       \E from \in DOMAIN dom.columns[c].list,
          to \in 1..(TargetLen(dom.columns, t) + 1) :
          BookmarkMoveEnds(c, from, t, to)
  \/ \E i \in DOMAIN moves : MoveResumes(i)
  \/ \E s, t \in DropTargets(dom.columns) :
       \E from \in 1..TargetLen(dom.columns, s),
          to \in 1..(TargetLen(dom.columns, t) + 1) : GroupDragEnds(s, from, t, to)

----------------------------------------------------------------------------
(* Three views of the checker.  Each fixes the hostnames that are checked,  *)
(* the instants the clock visits and the outcomes the network produces.     *)

ExampleCom == <<"example", "com">>

LocalHosts ==
  { <<"localhost">>, <<"127", "0", "0", "1">>, <<"192", "168", "1", "1">>,
    <<"10", "0", "0", "5">>, <<"172", "16", "0", "1">>, <<"172", "31", "9", "9">>,
    <<"nas", "local">> }

RemoteHosts ==
  { ExampleCom, <<"172", "15", "0", "1">>, <<"172", "32", "0", "1">>,
    <<"172", "example", "com">>, <<"example", "org">> }

CheckerNext(hosts, times, outcomesOf) ==
  \/ \E h \in hosts : checkSite(h, times)
  \/ \E h \in hosts : \E o \in outcomesOf[h] : FetchSettles(h, o)
  \/ \E h \in hosts : \E o \in ImageOutcomes : ImageSettles(h, o)
  \/ \E h \in hosts : CheckTimeout(h)
  \/ CleanupCache
  \/ \E t \in times : Tick(t)

\* Expiry: one remote hostname and a local one; the clock visits the
\* instants at which an entry written at 0 or 1 expires.
TtlHosts == {ExampleCom, <<"localhost">>}

TtlTimes ==
  { 0, 1, HOUR, HOUR + 1, 12 * HOUR, 12 * HOUR + 1,
    24 * HOUR, 24 * HOUR + 1, 25 * HOUR }

TtlOutcomes == [h \in TtlHosts |-> {"ok", "FailedToFetch"}]

TtlNext == CheckerNext(TtlHosts, TtlTimes, TtlOutcomes)

\* Classification: one hostname, every outcome of every probe.
AvailTimes == {0, TIMEOUT, TIMEOUT + DOMAIN_TIMEOUT}

AvailHosts == {ExampleCom, <<"localhost">>}

AvailOutcomes == [h \in AvailHosts |-> FetchOutcomes]

AvailNext == CheckerNext(AvailHosts, AvailTimes, AvailOutcomes)

\* Size: more remote hostnames than the cache holds; the fetches of one of
\* them can fail.
SizeTimes == {0, TOTAL_CHECK_TIMEOUT + 1}

SizeHosts == RemoteHosts \cup {<<"localhost">>}

SizeOutcomes ==
  [h \in SizeHosts |-> IF h = ExampleCom THEN {"ok", "OtherError"} ELSE {"ok"}]

SizeNext == CheckerNext(SizeHosts, SizeTimes, SizeOutcomes)

\* Eviction: the cache fills with entries of different ages before a
\* further hostname is cached.
EvictTimes == {0, 1, TOTAL_CHECK_TIMEOUT + 1}

\* every fetch of one hostname fails, every other fetch succeeds
EvictOutcomes ==
  [h \in SizeHosts |-> IF h = ExampleCom THEN {"OtherError"} ELSE {"ok"}]

EvictNext == CheckerNext(SizeHosts, EvictTimes, EvictOutcomes)

\* Local network: every local hostname next to a remote one.
LocalSpecHosts == LocalHosts \cup {ExampleCom}

LocalTimes == {0, TOTAL_CHECK_TIMEOUT + 1}

LocalOutcomes == [h \in LocalSpecHosts |-> {"ok", "OtherError"}]

LocalNext == CheckerNext(LocalSpecHosts, LocalTimes, LocalOutcomes)

Init == CacheInit /\ OrderIdle /\ BoardIdle /\ CheckIdle

vars == <<cacheVars, orderVars, boardVars, checkVars>>

\* The page from its first render on.
PageInit == CacheInit /\ OrderIdle /\ BoardInit /\ CheckIdle

BoardSpec == PageInit /\ [][BoardNext]_vars

\* The page with its Refresh button and its drags.  Timers fire, the
\* promises a render awaits settle, and a drag that has started ends.
RefreshNext ==
  \/ RenderBoardStarts
  \/ TreeArrives
  \/ ColumnOrderArrives
  \/ BookmarkOrderArrives
  \/ refreshBookmarkTree
  \/ handleBookmarksChange
  \/ DragStarts
  \/ \E from, to \in DOMAIN dom.columns : ColumnDragEnds(from, to)
  \/ \E c \in DOMAIN dom.columns :
       \E from, to \in DOMAIN dom.columns[c].list : BookmarkDragEnds(c, from, to)

RefreshFairSpec ==
  /\ PageInit /\ [][RefreshNext]_vars
  /\ WF_vars(handleBookmarksChange)
  /\ WF_vars(RenderBoardStarts) /\ WF_vars(TreeArrives)
  /\ WF_vars(ColumnOrderArrives) /\ WF_vars(BookmarkOrderArrives)
  /\ WF_vars(\E from, to \in DOMAIN dom.columns : ColumnDragEnds(from, to))

DragSpec == DragInit /\ [][DragNext]_vars

ResetSpec == PageInit /\ [][ResetNext]_vars

\* The background script with the pages closed: only the tree matters.
RunInit ==
  /\ CacheInit /\ OrderIdle /\ CheckInit
  /\ tree \in CheckTrees
  /\ storage = [columnOrder |-> Null, bookmarkOrder |-> Null]
  /\ dom = EmptyContainer
  /\ render = NoRender
  /\ timers = [change |-> FALSE, removal |-> {}]
  /\ deleting = {}
  /\ isDragging = FALSE
  /\ listening = FALSE
  /\ moves = <<>>
  /\ popup = "closed"

CheckSpec == RunInit /\ [][CheckNext]_vars

RunSpec == RunInit /\ [][RunNext]_vars

ReconcileInit == CacheInit /\ OrderInit /\ BoardIdle /\ CheckIdle

ReconcileSpec == ReconcileInit /\ [][OrderNext]_vars

TtlSpec == Init /\ [][TtlNext]_vars
AvailSpec == Init /\ [][AvailNext]_vars
SizeSpec == Init /\ [][SizeNext]_vars
EvictSpec == Init /\ [][EvictNext]_vars
LocalSpec == Init /\ [][LocalNext]_vars

TtlFairSpec ==
  /\ TtlSpec
  /\ WF_vars(\E h \in TtlHosts : CheckTimeout(h))   \* a due timer fires
  /\ WF_vars(\E t \in TtlTimes : Tick(t))           \* time passes

----------------------------------------------------------------------------
(* Claims about the site checker.                                           *)

\* D of the claims: 24 h for true, 12 h for 'certificate-error' and for
\* 'no-https', 1 h for any other status.
ClaimD(status) ==
  CASE status = "true" -> 24 * HOUR
    [] status = "certificate-error" -> 12 * HOUR
    [] status = "no-https" -> 12 * HOUR
    [] OTHER -> HOUR

Fresh(ss, ct, h, t) == MapHas(ct, h) /\ t - MapGet(ct, h) <= ClaimD(MapGet(ss, h))

Pending(h) == InFlight(h) /\ ~calls[h].settled

\* C1 (as stated): a checkSite call for a remote hostname returns the cached
\* status and issues no probe iff the hostname has an entry with
\* now - lastCheck <= D(status); in every other case it probes, and when the
\* call returns the entry holds the returned status and the current time.
C1_CachedIffFresh ==
  [][ \A h \in RemoteHosts :
        /\ checkSite(h, TtlTimes) =>
             IF Fresh(siteStatus, checkTimes, h, now)
             THEN /\ last'.op = "checkSite" /\ last'.host = h
                  /\ last'.ret = MapGet(siteStatus, h)
                  /\ UNCHANGED <<siteStatus, checkTimes, calls>>
             ELSE /\ h \in DOMAIN calls'
                  /\ calls'[h].phase = "https"
        /\ (Pending(h) /\ (h \notin DOMAIN calls' \/ calls'[h].settled)) =>
             /\ last'.op = "checkSite" /\ last'.host = h
             /\ MapGet(siteStatus', h) = last'.ret
             /\ MapGet(checkTimes', h) = now'
    ]_vars

\* C2: checkAvailability returns true iff one of the three HTTPS probes
\* succeeds; otherwise 'no-https' iff one of the three HTTP probes succeeds;
\* otherwise 'certificate-error' iff the domain probe succeeds and the last
\* HTTPS error is a TypeError with 'Failed to fetch'; otherwise false.  No
\* HTTP probe is issued unless all three HTTPS probes have failed.
Span(hist, from, to) == {hist[i] : i \in {j \in from..to : j <= Len(hist)}}

ClaimClass(hist) ==
  IF "ok" \in Span(hist, 1, 3) THEN "true"
  ELSE IF "ok" \in Span(hist, 4, 6) THEN "no-https"
  ELSE IF Len(hist) = 7 /\ hist[7] = "loaded" /\ hist[3] = "FailedToFetch"
       THEN "certificate-error"
  ELSE "false"

C2_Classification ==
  /\ last.via \in {"availability", "dropped"} => last.ret = ClaimClass(last.hist)
  /\ \A h \in DOMAIN calls :
       calls[h].phase \in {"http", "domain"} =>
         /\ Len(calls[h].hist) >= 3
         /\ \A i \in 1..3 : calls[h].hist[i] # "ok"

C2_Witness ==
  /\ last.via \in {"availability", "dropped"}
  /\ last.ret = "certificate-error"
  /\ last.hist[1] = "AbortError"

\* C3: a pending checkSite call settles; when the timer of the race fires
\* first, the call returns false and the entry of the hostname is false with
\* the current time.
C3_SettlesAndCachesFalse ==
  /\ \A h \in RemoteHosts : Pending(h) ~> ~Pending(h)
  /\ [][ \A h \in RemoteHosts :
           (Pending(h) /\ h \in DOMAIN calls' /\ calls'[h].settled) =>
             /\ last'.op = "checkSite" /\ last'.host = h /\ last'.ret = "false"
             /\ MapGet(siteStatus', h) = "false"
             /\ MapGet(checkTimes', h) = now'
       ]_vars

C3_Witness ==
  /\ last.op = "checkSite" /\ last.via = "timeout" /\ last.ret = "false"
  /\ InFlight(last.host)
  /\ MapGet(siteStatus, last.host) = "false"
  /\ MapGet(checkTimes, last.host) = now

\* C4: the cache never holds more than MAX_CACHE_SIZE hostnames.
C4_CacheBounded ==
  /\ Len(siteStatus) <= MAX_CACHE_SIZE
  /\ Len(checkTimes) <= MAX_CACHE_SIZE

\* a full cache, filled by a call that had to evict
C4_Witness ==
  /\ Len(siteStatus) = MAX_CACHE_SIZE
  /\ last.op = "checkSite" /\ last.removed > 0

\* C5: cleanupCache removes exactly the expired entries: none that remains
\* is expired, and every entry that was not expired is kept unchanged.
C5_CleanupExact ==
  [][ CleanupCache =>
        /\ MapKeys(checkTimes') \subseteq MapKeys(checkTimes)
        /\ MapKeys(siteStatus') = MapKeys(checkTimes')
        /\ \A h \in MapKeys(checkTimes) :
             IF Fresh(siteStatus, checkTimes, h, now)
             THEN /\ MapHas(checkTimes', h)
                  /\ MapGet(checkTimes', h) = MapGet(checkTimes, h)
                  /\ MapGet(siteStatus', h) = MapGet(siteStatus, h)
             ELSE ~MapHas(checkTimes', h) /\ ~MapHas(siteStatus', h)
    ]_vars

\* a cleanup that removed a 'no-https' entry that had just expired
C5_Witness ==
  /\ last.op = "cleanupCache" /\ last.removed = 1
  /\ now = 12 * HOUR + 1
  /\ checkTimes = <<>>

\* C6: for a local hostname checkSite returns true, issues no probe and
\* leaves both maps unchanged.
ClaimedLocal ==
  { <<"localhost">>, <<"127", "0", "0", "1">>, <<"192", "168", "1", "1">>,
    <<"10", "0", "0", "5">>, <<"172", "16", "0", "1">>, <<"172", "31", "9", "9">>,
    <<"nas", "local">> }

C6_LocalSkipped ==
  [][ \A h \in ClaimedLocal :
        checkSite(h, LocalTimes) =>
          /\ last'.op = "checkSite" /\ last'.host = h /\ last'.ret = "true"
          /\ UNCHANGED <<siteStatus, checkTimes, calls>>
    ]_vars

C6_Witness ==
  /\ last.op = "checkSite" /\ last.host = <<"172", "31", "9", "9">>
  /\ last.ret = "true"
  /\ Len(siteStatus) > 0

----------------------------------------------------------------------------
(* Claims about the reconciliation of saved orders.                         *)

FirstIndex(s, x) ==
  CHOOSE i \in DOMAIN s : s[i] = x /\ \A j \in DOMAIN s : s[j] = x => i <= j

DupFree(s) == \A i, j \in DOMAIN s : s[i] = s[j] => i = j

\* The URL bookmarks among the children the column was rendered from.
LiveUrlIds == {arg.children[i].id : i \in {j \in DOMAIN arg.children : arg.children[j].url}}

\* C7: a column rendered with a saved ID list, whatever stale, missing or
\* repeated IDs the list holds, shows every live URL bookmark of the column
\* exactly once and no ID absent from the live children; the bookmarks that
\* are in the saved list come first, in the order of their first occurrence
\* in the list, and the others follow.
C7_OrderReconciled ==
  (out.op \in {"renderFolderColumn", "renderSpecialColumn"} /\ ~arg.saved.isNull) =>
    LET r == out.ids
        s == arg.saved.val
    IN  /\ \A id \in LiveUrlIds : Cardinality({i \in DOMAIN r : r[i] = id}) = 1
        /\ \A i \in DOMAIN r : r[i] \in LiveUrlIds
        /\ \A i, j \in DOMAIN r :
             (i < j /\ r[j] \in Range(s)) =>
               /\ r[i] \in Range(s)
               /\ FirstIndex(s, r[i]) < FirstIndex(s, r[j])

\* A folder column rendered from a saved list with a stale ID and a repeated
\* live ID, while a live bookmark is missing from the list.
C7_Witness ==
  /\ out.op = "renderFolderColumn"
  /\ ~arg.saved.isNull
  /\ "99" \in Range(arg.saved.val)
  /\ \E id \in LiveUrlIds : Cardinality({i \in DOMAIN arg.saved.val : arg.saved.val[i] = id}) = 2
  /\ \E id \in LiveUrlIds : id \notin Range(arg.saved.val)
  /\ Len(out.ids) = 3

\* The natural order of the columns of the tree of a "board" input.
NaturalColumns ==
  Ids(filterFolders(arg.children))
    \o (IF filterUrl(arg.children) # <<>> THEN <<"uncategorized">> ELSE <<>>)
    \o (IF arg.other THEN <<"2">> ELSE <<>>)
    \o (IF arg.mobile THEN <<"3">> ELSE <<>>)

\* C8: for a saved column order without duplicates, determineColumnOrder
\* returns a permutation of the live columns: the saved columns that are
\* live come first, in saved order, then the live columns that are not
\* saved, in natural order (the folders of the bar, Uncategorized, Other
\* '2', Mobile '3'); a null or empty saved order gives the natural order.
C8_ColumnOrderPermutation ==
  (out.op = "determineColumnOrder" /\ DupFree(arg.saved.val)) =>
    LET r == out.ids
        s == arg.saved.val
    IN  /\ Len(r) = Len(NaturalColumns)
        /\ Range(r) = Range(NaturalColumns)
        /\ r = SelectSeq(s, LAMBDA id : id \in Range(NaturalColumns))
                 \o SelectSeq(NaturalColumns, LAMBDA id : id \notin Range(s))
        /\ (arg.saved.isNull \/ s = <<>>) => r = NaturalColumns

\* A saved order with a stale ID that reverses two live columns and leaves
\* two others out.
C8_Witness ==
  /\ out.op = "determineColumnOrder"
  /\ DupFree(arg.saved.val)
  /\ "99" \in Range(arg.saved.val)
  /\ Len(NaturalColumns) = 5
  /\ Len(SelectSeq(arg.saved.val, LAMBDA id : id \in Range(NaturalColumns))) = 3
  /\ out.ids[1] = "3" /\ out.ids[2] = "10"

----------------------------------------------------------------------------
(* Claims about the persistence of the layout.                              *)

\* The board shows what a render of tree t shows: the same columns and, in
\* each, the same bookmarks directly and in all.
ShowsTree(columns, t) ==
  LET natural == processBookmarkTree(t, Null, Null)
  IN  /\ Len(columns) = Len(natural)
      /\ \A n \in Range(natural) :
           \E c \in Range(columns) :
             /\ storageIdOf(c) = storageIdOf(n)
             /\ Range(DirectIds(c.list)) = Range(DirectIds(n.list))
             /\ Len(DirectIds(c.list)) = Len(DirectIds(n.list))
             /\ Range(bookmarkItems(c.list)) = Range(bookmarkItems(n.list))

\* The board a re-render shows after the layout of columns was saved.
Reloaded(columns) ==
  LET saved == saveBookmarkOrder(saveColumnOrder(storage, columns), columns)
  IN  processBookmarkTree(tree, saved.columnOrder, saved.bookmarkOrder)

C10_SavedFromRenderedBoard ==
  [][ storage'.bookmarkOrder # storage.bookmarkOrder =>
        /\ render'.pc = "idle"
        /\ dom'.columns # <<>>
        /\ storage'.bookmarkOrder = Some(collectBookmarkOrderFromDOM(dom'.columns))
        /\ ~storage.bookmarkOrder.isNull =>
             \A k \in DOMAIN storage.bookmarkOrder.val :
               Range(storage.bookmarkOrder.val[k]) \cap bookmarkIdsIn(tree') # {}
                 => k \in DOMAIN storage'.bookmarkOrder.val ]_vars

\* C11: a drag that ends with every bookmark in the list it started in (a
\* column reordered, a bookmark reordered within its list) leaves the
\* bookmark tree, the calls of chrome.bookmarks.move and everything but the
\* board and the persisted order unchanged; a step that calls
\* chrome.bookmarks.move puts a bookmark in another list than it was in.
SameLists ==
  \A id \in bookmarkIdsIn(DragTree) :
     ListsOf(dom.columns, id) = ListsOf(dom'.columns, id)

PositionIn(toCheck, b) == CHOOSE i \in DOMAIN toCheck : toCheck[i] = b

BatchNo(toCheck, b) == (PositionIn(toCheck, b) - 1) \div batchSize

Settled(run) == DOMAIN run.results \ run.pending

C12_BatchesOfTen ==
  \A r \in DOMAIN runs :
     LET run == runs[r]
         started == run.pending \cup DOMAIN run.results
     IN  /\ Cardinality(run.pending) <= batchSize
         /\ \A b \in started, c \in Range(run.bookmarksToCheck) :
               BatchNo(run.bookmarksToCheck, c) < BatchNo(run.bookmarksToCheck, b)
                 => c \in Settled(run)

C12_Witness ==
  \E r \in DOMAIN runs :
     /\ runs[r].pc = "batch" /\ runs[r].i >= batchSize
     /\ runs[r].pending # {}
     /\ Cardinality(Settled(runs[r])) = batchSize

\* C14: a run of checkAllBookmarks has broadcast one terminal message when
\* it has ended and none before, CHECK_COMPLETED or CHECK_FAILED; the step
\* that broadcasts CHECK_COMPLETED leaves the run's results in session
\* storage (in local storage when there is no session storage) and the
\* message carries these results.
Written(st) == IF st.hasSession THEN st.session ELSE st.local

C14_OneTerminalMessage ==
  /\ [](\A r \in DOMAIN runs :
          /\ Len(runs[r].terminal) = (IF runs[r].pc \in {"done", "failed"} THEN 1 ELSE 0)
          /\ \A k \in DOMAIN runs[r].terminal :
                runs[r].terminal[k].type = "CHECK_COMPLETED"
                  => runs[r].terminal[k].siteStatus = runs[r].results)
  /\ [][\A r \in DOMAIN runs :
          (runs'[r].pc = "done" /\ runs[r].pc # "done")
            => Written(store') = Some(runs'[r].results)]_vars

InProgress(run) == run.pc \in {"getTree", "batch", "set"}

C18_OneRunAtATime ==
  Cardinality({r \in DOMAIN runs : InProgress(runs[r])}) <= 1

\* C13: once a change notification has armed the timer of
\* handleBookmarksChange, a re-render started by it eventually reads the
\* bookmark tree as it then is.
C13_ChangeRerenders ==
  timers.change ~> (/\ render.by = "handleBookmarksChange"
                    /\ render.pc = "getColumnOrder"
                    /\ render.bookmarkTree = tree)

\* C16: a layout reset (from the page or from the popup) leaves no column
\* order and no bookmark order in the store, whatever was saved before; and
\* a first render of the page that reads the store as the reset left it
\* shows the columns in natural order (the folders of the bar,
\* Uncategorized, Other '2', Mobile '3') and the bookmarks each column holds
\* directly in tag-sorted order.
NaturalOrderOf(t) ==
  LET bar == find(t.children, "1")
      barChildren == IF bar = <<>> THEN <<>> ELSE bar[1].children
  IN  Ids(filterFolders(barChildren))
        \o (IF filterUrl(barChildren) # <<>> THEN <<"uncategorized">> ELSE <<>>)
        \o Ids(find(t.children, "2")) \o Ids(find(t.children, "3"))

TagSorted(t, ids) ==
  \A i \in 1..(Len(ids) - 1) :
     compareTags(CHOOSE n \in nodesOf(t, ids[i]) : TRUE,
                 CHOOSE n \in nodesOf(t, ids[i + 1]) : TRUE) <= 0

ResetStep ==
  \/ popup = "closed" /\ popup' = "query"
  \/ listening /\ ~listening' /\ popup' = popup

C17_NeverNull ==
  last.op = "checkSite" =>
    last.ret \in {"true", "false", "certificate-error", "no-https"}

\* C19: when updateCache finds the cache full, limitCacheSize removes
\* min(size, ceil(0.2 * MAX_CACHE_SIZE)) hostnames from both maps before the
\* new entry is set, and no removed hostname had a later lastCheck than a
\* hostname that was kept.
C19_EvictsOldest ==
  [][ ( /\ last'.op = "checkSite" /\ checkTimes' # checkTimes
        /\ Len(siteStatus) >= MAX_CACHE_SIZE )
      => \E R \in SUBSET MapKeys(checkTimes) :
            /\ Cardinality(R) = Min(Len(checkTimes), (MAX_CACHE_SIZE * 2 + 9) \div 10)
            /\ \A r \in R, k \in MapKeys(checkTimes) \ R :
                  MapGet(checkTimes, r) <= MapGet(checkTimes, k)
            /\ MapKeys(checkTimes') = (MapKeys(checkTimes) \ R) \cup {last'.host}
            /\ MapKeys(siteStatus') = (MapKeys(siteStatus) \ R) \cup {last'.host}
            /\ \A k \in MapKeys(checkTimes) \ (R \cup {last'.host}) :
                  /\ MapGet(checkTimes', k) = MapGet(checkTimes, k)
                  /\ MapGet(siteStatus', k) = MapGet(siteStatus, k)
    ]_vars

\* an eviction that kept an entry older than the new one and newer than
\* none of the removed ones
C19_Witness ==
  /\ last.op = "checkSite" /\ last.removed = removeCount
  /\ Len(checkTimes) = MAX_CACHE_SIZE
  /\ \E k \in MapKeys(checkTimes) : MapGet(checkTimes, k) < now
  /\ \E k \in MapKeys(checkTimes) : k # last.host /\ MapGet(checkTimes, k) = now

====
